---- MODULE Spec2Model ----
(***************************************************************************)
(* A model of the avatar compositor (src/avatar_compositor.py): the        *)
(* configuration scaling of AvatarConfig.scaled, hex_to_rgb,               *)
(* create_gradient_image, load_shape_mask and the steps of                 *)
(* composite_avatar.                                                       *)
(*                                                                         *)
(* Python floats are IEEE-754 binary64.  The code truncates float products *)
(* and quotients with int(), so the rounding of every float operation is   *)
(* modelled: a float is a sign, a 53-bit significand and a binary          *)
(* exponent, and every operation rounds its exact result to nearest, ties  *)
(* to even.  Significands do not fit TLC's 32-bit integers, so they are    *)
(* sequences of 13-bit limbs, least significant first.                     *)
(***************************************************************************)
EXTENDS Integers, Sequences, FiniteSets, TLC

---------------------------------------------------------------------------
(* Natural numbers of any size: sequences of limbs of LimbBits bits,       *)
(* least significant first, without high zero limbs; <<>> is zero.         *)

Abs(n) == IF n < 0 THEN -n ELSE n

Min2(a, b) == IF a <= b THEN a ELSE b

Max2(a, b) == IF a >= b THEN a ELSE b

LimbBits == 13

Base == 2 ^ LimbBits

RECURSIVE IntBitLen(_)
IntBitLen(n) == IF n = 0 THEN 0 ELSE 1 + IntBitLen(n \div 2)

RECURSIVE BNFromInt(_)
BNFromInt(n) == IF n = 0 THEN <<>> ELSE <<n % Base>> \o BNFromInt(n \div Base)

RECURSIVE BNToInt(_)
BNToInt(b) == IF b = <<>> THEN 0 ELSE b[1] + Base * BNToInt(Tail(b))

RECURSIVE BNTrim(_)
BNTrim(b) ==
    IF b = <<>> THEN <<>>
    ELSE IF b[Len(b)] = 0 THEN BNTrim(SubSeq(b, 1, Len(b) - 1))
    ELSE b

BNLimb(b, i) == IF i >= 1 /\ i <= Len(b) THEN b[i] ELSE 0

BNBitLen(b) ==
    IF b = <<>> THEN 0 ELSE (Len(b) - 1) * LimbBits + IntBitLen(b[Len(b)])

\* bit i of b, bit 1 the least significant
BNBit(b, i) ==
    (BNLimb(b, (i - 1) \div LimbBits + 1) \div (2 ^ ((i - 1) % LimbBits))) % 2

RECURSIVE BNAddC(_, _, _, _)
BNAddC(a, b, i, c) ==
    IF i > Len(a) /\ i > Len(b) THEN (IF c = 0 THEN <<>> ELSE <<c>>)
    ELSE LET s == BNLimb(a, i) + BNLimb(b, i) + c
         IN  <<s % Base>> \o BNAddC(a, b, i + 1, s \div Base)

BNAdd(a, b) == BNTrim(BNAddC(a, b, 1, 0))

\* a - b for a >= b
RECURSIVE BNSubC(_, _, _, _)
BNSubC(a, b, i, c) ==
    IF i > Len(a) THEN <<>>
    ELSE LET s == BNLimb(a, i) - BNLimb(b, i) - c
         IN  <<(s + Base) % Base>> \o BNSubC(a, b, i + 1, IF s < 0 THEN 1 ELSE 0)

BNSub(a, b) == BNTrim(BNSubC(a, b, 1, 0))

\* a < b, comparing from the most significant limb
RECURSIVE BNLessAt(_, _, _)
BNLessAt(a, b, i) ==
    IF i = 0 THEN FALSE
    ELSE IF a[i] # b[i] THEN a[i] < b[i]
    ELSE BNLessAt(a, b, i - 1)

BNLess(a, b) ==
    IF Len(a) # Len(b) THEN Len(a) < Len(b) ELSE BNLessAt(a, b, Len(a))

\* a * n for 0 <= n <= Base
RECURSIVE BNMulSmallC(_, _, _, _)
BNMulSmallC(a, n, i, c) ==
    IF i > Len(a) THEN (IF c = 0 THEN <<>> ELSE <<c>>)
    ELSE LET s == a[i] * n + c
         IN  <<s % Base>> \o BNMulSmallC(a, n, i + 1, s \div Base)

BNMulSmall(a, n) == BNTrim(BNMulSmallC(a, n, 1, 0))

RECURSIVE BNMulAt(_, _, _)
BNMulAt(a, b, i) ==
    IF i > Len(b) THEN <<>>
    ELSE BNAdd(BNMulSmall(a, b[i]), BNTrim(<<0>> \o BNMulAt(a, b, i + 1)))

BNMul(a, b) == BNMulAt(a, b, 1)

\* the quotient limbs 1..i of a divided by n (0 < n <= Base), r the
\* remainder carried down from the limbs above
RECURSIVE BNDivSmallAt(_, _, _, _)
BNDivSmallAt(a, n, i, r) ==
    IF i = 0 THEN <<>>
    ELSE LET cur == r * Base + a[i]
         IN  BNDivSmallAt(a, n, i - 1, cur % n) \o <<cur \div n>>

\* b * 2^k
BNShl(b, k) ==
    BNTrim([i \in 1..(k \div LimbBits) |-> 0] \o BNMulSmall(b, 2 ^ (k % LimbBits)))

\* b \div 2^k
BNShr(b, k) ==
    LET high == SubSeq(b, k \div LimbBits + 1, Len(b))
    IN  BNTrim(BNDivSmallAt(high, 2 ^ (k % LimbBits), Len(high), 0))

RECURSIVE IntLowZeros(_)
IntLowZeros(n) == IF n % 2 = 1 THEN 0 ELSE 1 + IntLowZeros(n \div 2)

\* the number of low zero bits of a nonzero number
RECURSIVE BNLowZeros(_)
BNLowZeros(b) ==
    IF b[1] = 0 THEN LimbBits + BNLowZeros(Tail(b)) ELSE IntLowZeros(b[1])

---------------------------------------------------------------------------
(* IEEE-754 binary64: the value of [neg, m, e] is (-1)^neg * m * 2^e, with *)
(* m of exactly MantBits bits, or m = <<>> for zero.  The magnitudes the   *)
(* compositor computes are far from the subnormal and overflow ranges,     *)
(* which are not modelled.                                                 *)

MantBits == 53

FZero == [neg |-> FALSE, m |-> <<>>, e |-> 0]

\* The float nearest to (-1)^neg * M * 2^e (ties to even), for any M.
FRound(neg, M, e) ==
    LET L == BNBitLen(M)
    IN  IF L = 0 THEN FZero
        ELSE IF L <= MantBits
        THEN [neg |-> neg, m |-> BNShl(M, MantBits - L), e |-> e - (MantBits - L)]
        ELSE LET d      == L - MantBits
                 kept   == BNShr(M, d)
                 guard  == BNBit(M, d)
                 sticky == \E i \in 1..(d - 1) : BNBit(M, i) = 1
                 up     == guard = 1 /\ (sticky \/ BNBit(kept, 1) = 1)
                 r      == IF up THEN BNAdd(kept, <<1>>) ELSE kept
             IN  IF BNBitLen(r) > MantBits
                 THEN [neg |-> neg, m |-> BNShr(r, 1), e |-> e + d + 1]
                 ELSE [neg |-> neg, m |-> r, e |-> e + d]

\* float(n) of a Python int
FFromInt(n) == FRound(n < 0, BNFromInt(Abs(n)), 0)

\* The k quotient limbs after the point of r / b (r < b, b * Base within
\* the integers), least significant first, below them one limb that is 1
\* iff the division is inexact.
RECURSIVE DivLimbs(_, _, _)
DivLimbs(r, b, k) ==
    IF k = 0 THEN <<IF r # 0 THEN 1 ELSE 0>>
    ELSE DivLimbs((r * Base) % b, b, k - 1) \o <<(r * Base) \div b>>

\* a / b of two Python ints (true division, correctly rounded); also the
\* value of the decimal literal a/b, which Python rounds the same way.
FDivInt(a, b) ==
    LET num  == Abs(a)
        den  == Abs(b)
        nfrac == 5 + Len(BNFromInt(den))
        quot == BNTrim(DivLimbs(num % den, den, nfrac) \o BNFromInt(num \div den))
    IN  FRound((a < 0) # (b < 0), quot, -(LimbBits * (nfrac + 1)))

FNeg(f) == IF f.m = <<>> THEN f ELSE [f EXCEPT !.neg = ~f.neg]

\* f * g
FMul(f, g) ==
    IF f.m = <<>> \/ g.m = <<>> THEN FZero
    ELSE LET zf == BNLowZeros(f.m)
             zg == BNLowZeros(g.m)
             mf == BNShr(f.m, zf)
             mg == BNShr(g.m, zg)
             prod == IF Len(mf) <= Len(mg) THEN BNMul(mg, mf) ELSE BNMul(mf, mg)
         IN  FRound(f.neg # g.neg, prod, f.e + zf + g.e + zg)

\* f + g
FAdd(f, g) ==
    IF f.m = <<>> THEN g
    ELSE IF g.m = <<>> THEN f
    ELSE LET emin == Min2(f.e, g.e)
             af == BNShl(f.m, f.e - emin)
             ag == BNShl(g.m, g.e - emin)
         IN  IF f.neg = g.neg THEN FRound(f.neg, BNAdd(af, ag), emin)
             ELSE IF BNLess(af, ag) THEN FRound(g.neg, BNSub(ag, af), emin)
             ELSE FRound(f.neg, BNSub(af, ag), emin)

FSub(f, g) == FAdd(f, FNeg(g))

\* f < g
FLess(f, g) == LET diff == FSub(f, g) IN diff.m # <<>> /\ diff.neg

\* max(f, g) of Python: the first argument unless the second is greater
FMax(f, g) == IF FLess(f, g) THEN g ELSE f

\* int(f): truncation toward zero
FTrunc(f) ==
    IF f.m = <<>> THEN 0
    ELSE LET mag == IF f.e >= 0 THEN BNToInt(BNShl(f.m, f.e))
                    ELSE BNToInt(BNShr(f.m, -f.e))
         IN  IF f.neg THEN -mag ELSE mag

\* f == int(f)
FIsInt(f) ==
    \/ f.m = <<>>
    \/ f.e >= 0
    \/ \A i \in 1..Min2(-f.e, MantBits) : BNBit(f.m, i) = 0

---------------------------------------------------------------------------
(* The program's state.  pc is the position of the one function that is    *)
(* running; each function has a frame holding its arguments, locals and    *)
(* result.  A frame of a function that is not running is Idle.             *)

VARIABLES
    pc,          \* position in the running function
    hexFrame,    \* hex_to_rgb: hex_color, result
    gradFrame,   \* create_gradient_image: size, gradient, x, y, img
    shapeFrame,  \* load_shape_mask: shape_path's file, size, result
    alphaFrame,  \* composite_avatar, lines 320-328, at one pixel
    avatar,      \* composite_avatar: configuration and the sizes of its images
    pixels       \* composite_avatar: the alpha channels of its images

vars == <<pc, hexFrame, gradFrame, shapeFrame, alphaFrame, avatar, pixels>>

Idle == [idle |-> TRUE]

---------------------------------------------------------------------------
(* hex_to_rgb.  A string is a sequence of one-character strings.           *)

DigitChars == <<"0", "1", "2", "3", "4", "5", "6", "7", "8", "9">>

LowerChars == <<"a", "b", "c", "d", "e", "f">>

UpperChars == <<"A", "B", "C", "D", "E", "F">>

IsHexDigit(c) ==
    \/ \E i \in 1..10 : DigitChars[i] = c
    \/ \E j \in 1..6 : LowerChars[j] = c \/ UpperChars[j] = c

HexDigitValue(c) ==
    IF \E i \in 1..10 : DigitChars[i] = c
    THEN (CHOOSE i \in 1..10 : DigitChars[i] = c) - 1
    ELSE (CHOOSE i \in 1..6 : LowerChars[i] = c \/ UpperChars[i] = c) + 9

\* str.lstrip('#'): every leading '#' is removed
RECURSIVE LStripHash(_)
LStripHash(str) ==
    IF str # <<>> /\ str[1] = "#" THEN LStripHash(Tail(str)) ELSE str

\* str[i:j] for 0 <= i <= j: a slice is cut to the string's length
Slice(str, i, j) == SubSeq(str, i + 1, Min2(j, Len(str)))

RECURSIVE HexDigitsValue(_)
HexDigitsValue(str) ==
    IF str = <<>> THEN 0
    ELSE 16 * HexDigitsValue(SubSeq(str, 1, Len(str) - 1))
         + HexDigitValue(str[Len(str)])

\* int(str, 16) for a string of at most two characters: an optional sign
\* and at least one hexadecimal digit, and ValueError for anything else
\* (of the forms int() accepts beyond these, a two-character string can
\* only be a digit beside a blank, and the inputs hold no blanks).
IntBase16(str) ==
    LET signed == str # <<>> /\ str[1] \in {"+", "-"}
        digits == IF signed THEN Tail(str) ELSE str
    IN  IF digits = <<>> \/ \E i \in 1..Len(digits) : ~IsHexDigit(digits[i])
        THEN [error |-> "ValueError"]
        ELSE [error |-> "none",
              value |-> IF signed /\ str[1] = "-" THEN -HexDigitsValue(digits)
                        ELSE HexDigitsValue(digits)]

hex_to_rgb(hex_color) ==
    LET stripped == LStripHash(hex_color)
        channel(k) == IntBase16(Slice(stripped, k, k + 2))
    IN  IF \E i \in {0, 2, 4} : channel(i).error # "none"
        THEN [error |-> "ValueError"]
        ELSE [error |-> "none",
              rgb |-> <<channel(0).value, channel(2).value, channel(4).value>>]

MaxHexLen == 7

HexAlphabet == {"#", "1", "F", "g", "-"}

HexInputs == UNION {[1..n -> HexAlphabet] : n \in 0..MaxHexLen}

HexInit ==
    /\ pc = "hex_to_rgb"
    /\ hexFrame \in {[hex_color |-> str, result |-> Idle] : str \in HexInputs}
    /\ gradFrame = Idle /\ shapeFrame = Idle /\ alphaFrame = Idle
    /\ avatar = Idle /\ pixels = Idle

HexToRgb ==
    /\ pc = "hex_to_rgb"
    /\ hexFrame' = [hexFrame EXCEPT !.result = hex_to_rgb(hexFrame.hex_color)]
    /\ pc' = "returned"
    /\ UNCHANGED <<gradFrame, shapeFrame, alphaFrame, avatar, pixels>>

HexNext == HexToRgb

SpecHex == HexInit /\ [][HexNext]_vars

---------------------------------------------------------------------------
(* PortalGradient and create_gradient_image.                               *)

PortalGradient(start_color, end_color) ==
    [start_color |-> start_color, end_color |-> end_color]

Orange == PortalGradient(<<"#", "C", "E", "7", "8", "2", "D">>,
                         <<"#", "E", "1", "A", "3", "7", "1">>)

Blue == PortalGradient(<<"#", "2", "D", "7", "E", "C", "E">>,
                       <<"#", "7", "1", "A", "3", "E", "1">>)

\* the gradient of the spec's worked example
BlackToWhite == PortalGradient(<<"#", "0", "0", "0", "0", "0", "0">>,
                               <<"#", "F", "F", "F", "F", "F", "F">>)

\* a gradient whose exact interpolation passes through whole numbers
DarkToGreen == PortalGradient(<<"#", "0", "1", "0", "1", "0", "1">>,
                              <<"#", "0", "1", "a", "3", "0", "1">>)

\* the factor of a gradient that runs from the upper left corner
GradientTFromLeft(width, height, x, y) == FDivInt(x + y, width + height)

\* t = ((width - x) + y) / (width + height)
GradientT(width, height, x, y) == FDivInt((width - x) + y, width + height)

\* int(start * (1 - t) + end * t)
GradientChannel(start, end, t) ==
    FTrunc(FAdd(FMul(FFromInt(start), FSub(FFromInt(1), t)),
                FMul(FFromInt(end), t)))

\* the (r, g, b) that create_gradient_image puts at (x, y)
GradientPixel(width, height, start_rgb, end_rgb, x, y) ==
    LET t == GradientT(width, height, x, y)
    IN  [c \in 1..3 |-> GradientChannel(start_rgb[c], end_rgb[c], t)]

MaxGradientSide == 3

\* small sizes, and the 10 x 10 of the spec's worked example
GradientSizes ==
    ((1..MaxGradientSide) \X (1..MaxGradientSide)) \cup {<<10, 10>>}

Gradients == {Orange, Blue, BlackToWhite, DarkToGreen}

\* Image.new("RGB", size): every pixel black
NewRGB(size) == [p \in (0..(size[1] - 1)) \X (0..(size[2] - 1)) |-> <<0, 0, 0>>]

GradientInit ==
    /\ pc = "gradient_loop"
    /\ gradFrame \in {[size |-> size, gradient |-> g, x |-> 0, y |-> 0,
                       img |-> NewRGB(size)] : size \in GradientSizes, g \in Gradients}
    /\ hexFrame = Idle /\ shapeFrame = Idle /\ alphaFrame = Idle
    /\ avatar = Idle /\ pixels = Idle

\* one turn of the inner loop: lines 118-124
GradientPutPixel ==
    /\ pc = "gradient_loop"
    /\ gradFrame.y < gradFrame.size[2]
    /\ LET width     == gradFrame.size[1]
           height    == gradFrame.size[2]
           start_rgb == hex_to_rgb(gradFrame.gradient.start_color).rgb
           end_rgb   == hex_to_rgb(gradFrame.gradient.end_color).rgb
           x         == gradFrame.x
           y         == gradFrame.y
           rgb       == GradientPixel(width, height, start_rgb, end_rgb, x, y)
           lastx     == x + 1 = width
       IN  gradFrame' = [gradFrame EXCEPT
                            !.img = [@ EXCEPT ![<<x, y>>] = rgb],
                            !.x = IF lastx THEN 0 ELSE x + 1,
                            !.y = IF lastx THEN y + 1 ELSE y]
    /\ pc' = pc
    /\ UNCHANGED <<hexFrame, shapeFrame, alphaFrame, avatar, pixels>>

\* the loops are over: return img
GradientReturn ==
    /\ pc = "gradient_loop"
    /\ gradFrame.y = gradFrame.size[2]
    /\ pc' = "returned"
    /\ UNCHANGED <<hexFrame, gradFrame, shapeFrame, alphaFrame, avatar, pixels>>

GradientNext == GradientPutPixel \/ GradientReturn

SpecGradient == GradientInit /\ [][GradientNext]_vars

---------------------------------------------------------------------------
(* load_shape_mask.  A shape file is an SVG drawing or a raster image.     *)
(* The images here are uniform: every pixel has the same band values, so   *)
(* an image is its mode, its size and the bands of its pixels.  A uniform  *)
(* image stays uniform under getchannel, convert and resize (the weights   *)
(* of a resampling filter are normalised).                                 *)

BandValues == {0, 128, 255}

\* the bands of each raster mode modelled
ModeBands(mode) ==
    CASE mode = "1"    -> {"L"}
      [] mode = "L"    -> {"L"}
      [] mode = "LA"   -> {"L", "A"}
      [] mode = "RGB"  -> {"R", "G", "B"}
      [] mode = "RGBA" -> {"R", "G", "B", "A"}

RasterModes == {"1", "L", "LA", "RGB", "RGBA"}

\* a bilevel image stores 0 or 255
ModePixels(mode) ==
    IF mode = "1" THEN [ModeBands(mode) -> {0, 255}]
    ELSE [ModeBands(mode) -> BandValues]

\* img.getchannel(band)
GetChannel(img, band) ==
    [mode |-> "L", size |-> img.size, pixel |-> [b \in {"L"} |-> img.pixel[band]]]

\* img.convert("L"): the ITU-R 601-2 luma of an RGB pixel (alpha is dropped),
\* the L band of an L or LA pixel, and 0 or 255 of a bilevel pixel
ConvertL(img) ==
    LET px == img.pixel
        lum == IF img.mode \in {"RGB", "RGBA"}
               THEN (px["R"] * 19595 + px["G"] * 38470 + px["B"] * 7471 + 32768)
                    \div 65536
               ELSE px["L"]
    IN  [mode |-> "L", size |-> img.size, pixel |-> [b \in {"L"} |-> lum]]

\* img.resize(size, LANCZOS) of a uniform image
Resize(img, size) == [img EXCEPT !.size = size]

\* cairosvg.svg2png(output_width, output_height) and Image.open(...).convert("RGBA"):
\* the drawing, its fills made white, rendered at the requested size
RenderSvg(shape, size) ==
    [mode |-> "RGBA", size |-> size,
     pixel |-> [b \in {"R", "G", "B", "A"} |->
                   IF b = "A" THEN shape.coverage
                   ELSE IF shape.coverage = 0 THEN 0 ELSE 255]]

load_shape_mask(shape, size, HAS_CAIROSVG) ==
    IF shape.kind = "svg"
    THEN IF ~HAS_CAIROSVG THEN [error |-> "ImportError"]
         ELSE [error |-> "none", mask |-> GetChannel(RenderSvg(shape, size), "A")]
    ELSE LET img  == shape.img
             mask == IF img.mode = "RGBA" THEN GetChannel(img, "A")
                     ELSE IF img.mode = "L" THEN img
                     ELSE ConvertL(img)
         IN  [error |-> "none",
              mask |-> IF mask.size # size THEN Resize(mask, size) ELSE mask]

MaxShapeSide == 2

ShapeSizes == (1..MaxShapeSide) \X (1..MaxShapeSide)

RasterImages(mode) ==
    {[mode |-> mode, size |-> sz, pixel |-> px] :
        sz \in ShapeSizes, px \in ModePixels(mode)}

ShapeFiles ==
    {[kind |-> "svg", coverage |-> c] : c \in BandValues}
    \cup {[kind |-> "png", img |-> img] :
             img \in UNION {RasterImages(mode) : mode \in RasterModes}}

ShapeInit ==
    /\ pc = "load_shape_mask"
    /\ shapeFrame \in {[shape |-> sh, size |-> sz, HAS_CAIROSVG |-> has,
                        result |-> Idle] :
                          sh \in ShapeFiles, sz \in ShapeSizes, has \in BOOLEAN}
    /\ hexFrame = Idle /\ gradFrame = Idle /\ alphaFrame = Idle
    /\ avatar = Idle /\ pixels = Idle

LoadShapeMask ==
    /\ pc = "load_shape_mask"
    /\ LET r == load_shape_mask(shapeFrame.shape, shapeFrame.size,
                                shapeFrame.HAS_CAIROSVG)
       IN  /\ shapeFrame' = [shapeFrame EXCEPT !.result = r]
           /\ pc' = IF r.error = "none" THEN "returned" ELSE "raised"
    /\ UNCHANGED <<hexFrame, gradFrame, alphaFrame, avatar, pixels>>

ShapeNext == LoadShapeMask

SpecShape == ShapeInit /\ [][ShapeNext]_vars

---------------------------------------------------------------------------
(* composite_avatar, lines 320-328, at one pixel of the expanded canvas:   *)
(* the alpha of the placed character and of the placed mask are combined.  *)

\* ImageChops.screen on one 8-bit band
ChopScreen(a, b) == Max2(0, Min2(255, 255 - ((255 - a) * (255 - b)) \div 255))

\* ImageChops.multiply on one 8-bit band: a * b / 255 in integers, clipped
ChopMultiply(a, b) == Max2(0, Min2(255, (a * b) \div 255))

AlphaInit ==
    /\ pc = "combine_alpha"
    /\ alphaFrame \in {[temp |-> a, full_mask |-> m, final_alpha |-> Idle,
                        char_expanded |-> Idle] : a \in 0..255, m \in 0..255}
    /\ hexFrame = Idle /\ gradFrame = Idle /\ shapeFrame = Idle
    /\ avatar = Idle /\ pixels = Idle

CombineAlpha ==
    /\ pc = "combine_alpha"
    /\ LET char_orig_alpha == alphaFrame.temp
           final_alpha     == ChopMultiply(char_orig_alpha, alphaFrame.full_mask)
       IN  alphaFrame' = [alphaFrame EXCEPT !.final_alpha = final_alpha,
                                           !.char_expanded = final_alpha]
    /\ pc' = "combined"
    /\ UNCHANGED <<hexFrame, gradFrame, shapeFrame, avatar, pixels>>

AlphaNext == CombineAlpha

SpecAlpha == AlphaInit /\ [][AlphaNext]_vars

---------------------------------------------------------------------------
(* AvatarConfig.  A number of the caller's configuration is the Python     *)
(* literal n/d: the int n when d = 1, else the float nearest to n/d.       *)

Lit(n, d) == [n |-> n, d |-> d]

ToFloat(v) == IF v.d = 1 THEN FFromInt(v.n) ELSE FDivInt(v.n, v.d)

\* isinstance(v, float) and v != int(v)
IsFractional(v) == v.d # 1 /\ ~FIsInt(ToFloat(v))

\* AvatarConfig(): the defaults of lines 58-67
DefaultConfig ==
    [output_size        |-> <<Lit(340, 1), Lit(400, 1)>>,
     portal_size        |-> <<Lit(340, 1), Lit(340, 1)>>,
     mask_size          |-> <<Lit(340, 1), Lit(430, 1)>>,
     portal_offset      |-> <<Lit(0, 1), Lit(60, 1)>>,
     mask_offset        |-> <<Lit(0, 1), Lit(-296, 10)>>,
     character_offset   |-> <<Lit(-70, 1), Lit(-40, 1)>>,
     character_size     |-> <<Lit(449, 1), Lit(804, 1)>>,
     character_rotation |-> 3,
     face_position      |-> Lit(0, 1),
     output_scale       |-> Lit(1, 1),
     internal_scale     |-> 1]

\* the configuration generate_avatar builds from the sliders' defaults
UiConfig ==
    [output_size        |-> <<Lit(340, 1), Lit(341, 1)>>,
     portal_size        |-> <<Lit(340, 1), Lit(376, 1)>>,
     mask_size          |-> <<Lit(340, 1), Lit(472, 1)>>,
     portal_offset      |-> <<Lit(0, 1), Lit(38, 1)>>,
     mask_offset        |-> <<Lit(0, 1), Lit(-48, 1)>>,
     character_offset   |-> <<Lit(-70, 1), Lit(-40, 1)>>,
     character_size     |-> <<Lit(448, 1), Lit(804, 1)>>,
     character_rotation |-> 3,
     face_position      |-> Lit(0, 1),
     output_scale       |-> Lit(1, 1),
     internal_scale     |-> 1]

Offsets(config) ==
    {config.mask_offset[1], config.mask_offset[2],
     config.portal_offset[1], config.portal_offset[2],
     config.character_offset[1], config.character_offset[2]}

\* has_subpixel looking at mask_offset alone
HasSubpixelMaskOnly(config) ==
    IsFractional(config.mask_offset[1]) \/ IsFractional(config.mask_offset[2])

\* lines 75-80
HasSubpixel(config) == \E v \in Offsets(config) : IsFractional(v)

\* lines 83-98: the configuration config.scaled() returns, its numbers ints
scaled(config) ==
    LET internal_scale == IF HasSubpixel(config) THEN 2 ELSE 1
        s == FMul(ToFloat(config.output_scale), FFromInt(internal_scale))
        mul(v) == FTrunc(FMul(ToFloat(v), s))
        pair(t) == <<mul(t[1]), mul(t[2])>>
    IN  [output_size        |-> pair(config.output_size),
         portal_size        |-> pair(config.portal_size),
         mask_size          |-> pair(config.mask_size),
         portal_offset      |-> pair(config.portal_offset),
         mask_offset        |-> pair(config.mask_offset),
         character_offset   |-> pair(config.character_offset),
         character_size     |-> pair(config.character_size),
         character_rotation |-> config.character_rotation,
         face_position      |-> config.face_position,
         output_scale       |-> Lit(1, 1),
         internal_scale     |-> internal_scale]

---------------------------------------------------------------------------
(* composite_avatar on the sizes of its images.                            *)

\* lines 273-275: the size the character is resized to
CoverSize(target, img) ==
    LET scale == FMax(FDivInt(target[1], img[1]), FDivInt(target[2], img[2]))
    IN  <<FTrunc(FMul(FFromInt(img[1]), scale)),
          FTrunc(FMul(FFromInt(img[2]), scale))>>

\* lines 280-283: the box the resized character is cropped to
CoverBox(target, new, face_position) ==
    LET left    == (new[1] - target[1]) \div 2
        max_top == new[2] - target[2]
        top     == FTrunc(FMul(FFromInt(max_top), ToFloat(face_position)))
    IN  <<left, top, left + target[1], top + target[2]>>

\* Image.crop(box): the size of the region, whether or not it lies in the image
BoxSize(box) == <<box[3] - box[1], box[4] - box[2]>>

CeilDiv(a, b) == -((-a) \div b)

\* |cos| and |sin| of the angles that are no multiple of 90 degrees, as
\* bounds in units of 1/TrigUnit
TrigUnit == 10 ^ 5

TrigBounds(angle) ==
    CASE angle \in {3, 357} -> [coslo |-> 99862, coshi |-> 99863,
                                sinlo |-> 5233, sinhi |-> 5234]

\* Image.rotate(angle, expand=True): the sizes the rotated image can have.
\* 0 and 180 degrees keep the size and 90 and 270 transpose it.  For any
\* other angle the size is ceil(max) - floor(min) over the rotated corners,
\* which is the extent T = w|cos| + h|sin| rounded up, or one more; the set
\* covers every value the bounds on cos and sin allow.
RotatedSizes(size, angle) ==
    LET a == angle % 360
    IN  IF a \in {0, 180} THEN {size}
        ELSE IF a \in {90, 270} THEN {<<size[2], size[1]>>}
        ELSE LET tb == TrigBounds(a)
                 extent(p, q) ==
                     CeilDiv(tb.coslo * p + tb.sinlo * q, TrigUnit)
                     .. (CeilDiv(tb.coshi * p + tb.sinhi * q, TrigUnit) + 1)
             IN  extent(size[1], size[2]) \X extent(size[2], size[1])

\* the expansion taken from the mask's offset alone
ExpandByMask(mask_off, character_off) == Abs(Min2(0, mask_off))

\* lines 297-298
ExpandBy(mask_off, character_off) == Abs(Min2(0, Min2(mask_off, character_off)))

\* the canvas padded, but not widened by the expansion
ExpandedSizePadOnly(output_size, expand_left, expand_top) ==
    <<output_size[1] + 200, output_size[2] + 200>>

\* lines 299-302
ExpandedSize(output_size, expand_left, expand_top) ==
    <<output_size[1] + expand_left * 2 + 200, output_size[2] + expand_top * 2 + 200>>

\* the crop box with its right and lower edges not moved by the expansion
CropBoxFromOrigin(output_size, expand_left, expand_top) ==
    <<expand_left, expand_top, output_size[1], output_size[2]>>

\* lines 331-333
CropBox(output_size, expand_left, expand_top) ==
    <<expand_left, expand_top,
      expand_left + output_size[1], expand_top + output_size[2]>>

\* the size of a canvas that is not resized
DownscaledSizeKept(size, internal_scale) == size

\* lines 341-344
DownscaledSize(size, internal_scale) ==
    <<FTrunc(FDivInt(size[1], internal_scale)),
      FTrunc(FDivInt(size[2], internal_scale))>>

\* The offsets of the configurations explored reach FarOffset on both sides.
FarOffset == 1000

MaskOffsets ==
    {<<Lit(0, 1), Lit(-296, 10)>>,
     <<Lit(0, 1), Lit(-48, 1)>>,
     <<Lit(-FarOffset, 1), Lit(-FarOffset, 1)>>,
     <<Lit(FarOffset, 1), Lit(FarOffset, 1)>>}

CharacterOffsets ==
    {<<Lit(-70, 1), Lit(-40, 1)>>,
     <<Lit(-705, 10), Lit(-40, 1)>>,
     <<Lit(150, 1), Lit(200, 1)>>,
     <<Lit(-FarOffset, 1), Lit(FarOffset, 1)>>}

PortalOffsets == {<<Lit(0, 1), Lit(60, 1)>>, <<Lit(0, 1), Lit(375, 10)>>}

CharacterSizes(base) == {base.character_size, <<Lit(4495, 10), Lit(804, 1)>>}

\* the output sizes: the configuration's own, and a small odd one
OutputSizes(base) == {base.output_size, <<Lit(3, 1), Lit(5, 1)>>}

OutputScales == {Lit(1, 1), Lit(3, 2), Lit(7, 10)}

\* character_rotation with face_position
Poses == {<<0, Lit(0, 1)>>, <<3, Lit(1, 2)>>, <<90, Lit(1, 1)>>}

\* the sizes of the character images loaded
SourceSizes == {<<100, 100>>, <<1024, 1536>>}

ConfigsOf(base) ==
    {[base EXCEPT !.output_size = out, !.mask_offset = mo,
                  !.character_offset = co, !.portal_offset = po,
                  !.character_size = cs, !.output_scale = os,
                  !.character_rotation = pose[1], !.face_position = pose[2]] :
        out \in OutputSizes(base), mo \in MaskOffsets, co \in CharacterOffsets,
        po \in PortalOffsets, cs \in CharacterSizes(base),
        os \in OutputScales, pose \in Poses}

Configs == ConfigsOf(DefaultConfig) \cup ConfigsOf(UiConfig)

Unbound == [unbound |-> TRUE]

Init ==
    /\ pc = "scaled"
    /\ avatar \in {[config |-> c, source |-> src, cfg |-> Unbound,
                    canvas |-> Unbound, portal_img |-> Unbound,
                    character |-> Unbound, resized |-> Unbound,
                    cover_box |-> Unbound, mask |-> Unbound,
                    expand |-> Unbound, expanded_size |-> Unbound,
                    char_at |-> Unbound, mask_at |-> Unbound,
                    crop_box |-> Unbound, char_layer |-> Unbound,
                    result |-> Unbound] :
                      c \in Configs, src \in SourceSizes}
    /\ hexFrame = Idle /\ gradFrame = Idle /\ shapeFrame = Idle
    /\ alphaFrame = Idle /\ pixels = Idle

Others == <<hexFrame, gradFrame, shapeFrame, alphaFrame, pixels>>

\* line 247: config = config.scaled()
Scaled ==
    /\ pc = "scaled"
    /\ avatar' = [avatar EXCEPT !.cfg = scaled(avatar.config)]
    /\ pc' = "portal"
    /\ UNCHANGED Others

\* lines 258-264: the canvas, and the portal pasted onto it
Portal ==
    /\ pc = "portal"
    /\ avatar' = [avatar EXCEPT !.canvas = avatar.cfg.output_size,
                                !.portal_img = avatar.cfg.portal_size]
    /\ pc' = "cover"
    /\ UNCHANGED Others

\* lines 267-283: load the character, resize it to cover the target, crop it.
\* Image.resize raises ValueError for a size that is not positive.
Cover ==
    /\ pc = "cover"
    /\ LET target == avatar.cfg.character_size
           new    == CoverSize(target, avatar.source)
           box    == CoverBox(target, new, avatar.cfg.face_position)
       IN  IF new[1] <= 0 \/ new[2] <= 0
           THEN /\ avatar' = [avatar EXCEPT !.resized = new]
                /\ pc' = "raised"
           ELSE /\ avatar' = [avatar EXCEPT !.resized = new, !.cover_box = box,
                                            !.character = BoxSize(box)]
                /\ pc' = "rotate"
    /\ UNCHANGED Others

\* lines 286-291
Rotate ==
    /\ pc = "rotate"
    /\ IF avatar.cfg.character_rotation # 0
       THEN \E size \in RotatedSizes(avatar.character, avatar.cfg.character_rotation) :
                avatar' = [avatar EXCEPT !.character = size]
       ELSE avatar' = avatar
    /\ pc' = "mask"
    /\ UNCHANGED Others

\* line 294: load_shape_mask returns a mask of the size asked for
LoadMask ==
    /\ pc = "mask"
    /\ avatar' = [avatar EXCEPT !.mask = avatar.cfg.mask_size]
    /\ pc' = "layer"
    /\ UNCHANGED Others

\* lines 296-334: place mask and character on the expanded canvas, combine
\* their alpha, crop back
Layer ==
    /\ pc = "layer"
    /\ LET cfg == avatar.cfg
           expand_left == ExpandBy(cfg.mask_offset[1], cfg.character_offset[1])
           expand_top  == ExpandBy(cfg.mask_offset[2], cfg.character_offset[2])
           crop_box    == CropBox(cfg.output_size, expand_left, expand_top)
       IN  avatar' = [avatar EXCEPT
               !.expand = <<expand_left, expand_top>>,
               !.expanded_size = ExpandedSize(cfg.output_size, expand_left, expand_top),
               !.char_at = <<expand_left + cfg.character_offset[1],
                             expand_top + cfg.character_offset[2]>>,
               !.mask_at = <<expand_left + cfg.mask_offset[1],
                             expand_top + cfg.mask_offset[2]>>,
               !.crop_box = crop_box,
               !.char_layer = BoxSize(crop_box)]
    /\ pc' = "composite"
    /\ UNCHANGED Others

\* line 337: Image.alpha_composite raises ValueError unless the sizes match
Composite ==
    /\ pc = "composite"
    /\ pc' = IF avatar.canvas = avatar.char_layer THEN "downscale" ELSE "raised"
    /\ UNCHANGED <<avatar, hexFrame, gradFrame, shapeFrame, alphaFrame, pixels>>

\* lines 340-347
Downscale ==
    /\ pc = "downscale"
    /\ avatar.cfg.internal_scale > 1
    /\ LET original_size == DownscaledSize(avatar.canvas, avatar.cfg.internal_scale)
       IN  avatar' = [avatar EXCEPT !.canvas = original_size, !.result = original_size]
    /\ pc' = "returned"
    /\ UNCHANGED Others

\* lines 340, 347
Return ==
    /\ pc = "downscale"
    /\ avatar.cfg.internal_scale <= 1
    /\ avatar' = [avatar EXCEPT !.result = avatar.canvas]
    /\ pc' = "returned"
    /\ UNCHANGED Others

Next ==
    \/ Scaled \/ Portal \/ Cover \/ Rotate \/ LoadMask \/ Layer \/ Composite
    \/ Downscale \/ Return

Spec == Init /\ [][Next]_vars

---------------------------------------------------------------------------
(* Properties of composite_avatar.                                         *)

\* the division of Python's int(): the quotient truncated toward zero
TruncDiv(a, b) == IF a >= 0 THEN a \div b ELSE -((-a) \div b)

\* the caller's output size, in the caller's pixels
NominalOutput(config) == <<config.output_size[1].n, config.output_size[2].n>>

IntegerOffsets(config) == \A v \in Offsets(config) : v.d = 1

\* an offset n/d that is no whole number
FractionalOffset(config) == \E v \in Offsets(config) : v.n % v.d # 0

FractionalSize(config) ==
    \E size \in {config.output_size, config.portal_size, config.mask_size,
                  config.character_size} :
        \E k \in 1..2 : size[k].n % size[k].d # 0

Configured == pc # "scaled"

Layered == pc \in {"composite", "downscale", "returned"}

\* C1: with integer offsets and output_scale 1, whatever the sign and size of
\* mask_offset and character_offset, composite_avatar returns, and the
\* character layer cropped back from the expanded canvas and the image
\* returned both have exactly the output size (outputW, outputH).
C1_OutputSizeIgnoresOffsets ==
    (IntegerOffsets(avatar.config) /\ avatar.config.output_scale = Lit(1, 1))
        => /\ pc # "raised"
           /\ Layered => avatar.char_layer = NominalOutput(avatar.config)
           /\ pc = "returned" => avatar.result = NominalOutput(avatar.config)

\* offsets of -FarOffset and +FarOffset, and the default output size returned
C1_FarOffsetsReturned ==
    /\ pc = "returned"
    /\ avatar.config.output_scale = Lit(1, 1)
    /\ avatar.config.output_size = <<Lit(340, 1), Lit(400, 1)>>
    /\ avatar.config.portal_offset = <<Lit(0, 1), Lit(60, 1)>>
    /\ avatar.config.mask_offset = <<Lit(FarOffset, 1), Lit(FarOffset, 1)>>
    /\ avatar.config.character_offset = <<Lit(-FarOffset, 1), Lit(FarOffset, 1)>>
    /\ avatar.expand = <<FarOffset, 0>>
    /\ avatar.char_layer = <<340, 400>>
    /\ avatar.result = <<340, 400>>

\* C2: a configuration with a fractional offset is rendered at internal
\* scale 2, and the image returned after downsampling has the size
\* (trunc(outputW * output_scale), trunc(outputH * output_scale)), which is
\* (outputW, outputH) at output_scale 1, and never the size rendered at.
C2_SupersamplingRoundTrip ==
    FractionalOffset(avatar.config)
        => /\ pc # "raised"
           /\ Configured => avatar.cfg.internal_scale = 2
           /\ pc = "returned" =>
                 LET os == ToFloat(avatar.config.output_scale)
                     nominal == NominalOutput(avatar.config)
                 IN  /\ avatar.result = <<FTrunc(FMul(FFromInt(nominal[1]), os)),
                                          FTrunc(FMul(FFromInt(nominal[2]), os))>>
                     /\ avatar.config.output_scale = Lit(1, 1)
                          => avatar.result = nominal
                     /\ avatar.result # avatar.cfg.output_size

\* the default mask offset -29.6: rendered at 680 x 800, returned at 340 x 400
C2_HairlineOffsetReturned ==
    /\ pc = "returned"
    /\ avatar.config.output_size = <<Lit(340, 1), Lit(400, 1)>>
    /\ avatar.config.mask_offset = <<Lit(0, 1), Lit(-296, 10)>>
    /\ avatar.config.output_scale = Lit(1, 1)
    /\ avatar.cfg.internal_scale = 2
    /\ avatar.cfg.output_size = <<680, 800>>
    /\ avatar.result = <<340, 400>>

Covered == pc \in {"rotate", "mask", "layer", "composite", "downscale", "returned"}

\* the fields of a configuration that scaled() multiplies
GeometryFields ==
    {"output_size", "portal_size", "mask_size", "portal_offset", "mask_offset",
     "character_offset", "character_size"}

\* C5 as the specification states it: a fraction in any offset or in any
\* size engages internal scale 2, every size and offset is multiplied by
\* that scale (and by output_scale) and made an integer, and the image
\* returned is the canvas downsampled by 2.
C5_AnyFractionEngagesScale2 ==
    (Configured /\ (FractionalOffset(avatar.config) \/ FractionalSize(avatar.config)))
        => /\ avatar.cfg.internal_scale = 2
           /\ \A f \in GeometryFields : \A k \in 1..2 :
                 avatar.cfg[f][k] =
                     FTrunc(FMul(ToFloat(avatar.config[f][k]),
                                 FMul(ToFloat(avatar.config.output_scale), FFromInt(2))))
           /\ pc = "returned" =>
                 avatar.result = <<avatar.cfg.output_size[1] \div 2,
                                   avatar.cfg.output_size[2] \div 2>>

\* C5, amended: internal scale 2 is engaged exactly when one of the six
\* offsets (mask, portal, character; x and y) is fractional, a fractional
\* size engaging nothing; every size and offset is multiplied by
\* output_scale times the internal scale and truncated toward zero, which at
\* output_scale 1 is exactly trunc(scale * value) (read off the
\* configuration scaled() returns); and the image returned has
\* the canvas size divided by the internal scale, rounded down.
C5_FractionalOffsetEngagesScale2 ==
    Configured =>
        LET scale == IF FractionalOffset(avatar.config) THEN 2 ELSE 1
        IN  /\ avatar.cfg.internal_scale = scale
            /\ pc = "portal" => \A f \in GeometryFields : \A k \in 1..2 :
                  LET v == avatar.config[f][k]
                  IN  /\ avatar.cfg[f][k] =
                            FTrunc(FMul(ToFloat(v),
                                        FMul(ToFloat(avatar.config.output_scale),
                                             FFromInt(scale))))
                      /\ avatar.config.output_scale = Lit(1, 1)
                            => avatar.cfg[f][k] = TruncDiv(scale * v.n, v.d)
            /\ pc = "returned" =>
                  avatar.result = <<avatar.cfg.output_size[1] \div scale,
                                    avatar.cfg.output_size[2] \div scale>>

\* a fractional portal offset alone engages scale 2, the hairline offset
\* -29.6 becoming -59
C5_PortalOffsetEngaged ==
    /\ pc = "returned"
    /\ avatar.config.portal_offset = <<Lit(0, 1), Lit(375, 10)>>
    /\ avatar.config.mask_offset = <<Lit(0, 1), Lit(-48, 1)>>
    /\ avatar.config.character_offset = <<Lit(-70, 1), Lit(-40, 1)>>
    /\ avatar.config.output_scale = Lit(1, 1)
    /\ avatar.cfg.internal_scale = 2
    /\ avatar.cfg.portal_offset = <<0, 75>>
    /\ avatar.cfg.mask_offset = <<0, -96>>

\* C7 as the specification states it: the crop box of the cover transform
\* is (left, top, left + targetW, top + targetH) with
\* left = floor((newW - targetW) / 2) and
\* top = floor((newH - targetH) * facePosition), has the size of the target,
\* lies inside the resized image, and has top = 0 at facePosition 0 and
\* top = newH - targetH at facePosition 1.
C7_CoverBoxInsideResized ==
    Covered =>
        LET target == avatar.cfg.character_size
            new    == avatar.resized
            fp     == avatar.cfg.face_position
            left   == (new[1] - target[1]) \div 2
            top    == ((new[2] - target[2]) * fp.n) \div fp.d
            box    == avatar.cover_box
        IN  /\ box = <<left, top, left + target[1], top + target[2]>>
            /\ BoxSize(box) = target
            /\ 0 <= box[1] /\ box[3] <= new[1]
            /\ 0 <= box[2] /\ box[4] <= new[2]
            /\ fp = Lit(0, 1) => box[2] = 0
            /\ fp = Lit(1, 1) => box[2] = new[2] - target[2]

\* a 100 x 100 character covering the target 449 x 804 is resized to
\* 803 x 803, one row short of the box cropped from it
C7_CropBelowResized ==
    /\ pc = "rotate"
    /\ avatar.source = <<100, 100>>
    /\ avatar.cfg.character_size = <<449, 804>>
    /\ avatar.resized = <<803, 803>>
    /\ avatar.cover_box = <<177, 0, 626, 804>>

\* rectangles <<left, upper, right, lower>> on the expanded canvas
RectAt(at, size) == <<at[1], at[2], at[1] + size[1], at[2] + size[2]>>

NoRect == <<0, 0, 0, 0>>

Intersect(r, q) ==
    LET box == <<Max2(r[1], q[1]), Max2(r[2], q[2]),
                 Min2(r[3], q[3]), Min2(r[4], q[4])>>
    IN  IF box[1] < box[3] /\ box[2] < box[4] THEN box ELSE NoRect

Inside(r, q) == q[1] <= r[1] /\ q[2] <= r[2] /\ r[3] <= q[3] /\ r[4] <= q[4]

ExpandedCanvas == RectAt(<<0, 0>>, avatar.expanded_size)

MaskRect == RectAt(avatar.mask_at, avatar.mask)

CharacterRect == RectAt(avatar.char_at, avatar.character)

\* C10 as the specification states it: for every configuration the mask's
\* rectangle and the character's rectangle lie entirely inside the expanded
\* canvas of size (outputW + 2 expandLeft + 200, outputH + 2 expandTop + 200).
C10_RectanglesInsideCanvas ==
    Layered =>
        /\ avatar.expanded_size =
               <<avatar.cfg.output_size[1] + 2 * avatar.expand[1] + 200,
                 avatar.cfg.output_size[2] + 2 * avatar.expand[2] + 200>>
        /\ Inside(MaskRect, ExpandedCanvas)
        /\ Inside(CharacterRect, ExpandedCanvas)

\* C10, amended: the mask and the character are placed at (expandLeft +
\* offsetX, expandTop + offsetY) on a canvas of size (outputW + 2 expandLeft
\* + 200, outputH + 2 expandTop + 200); neither is cut at the canvas's left
\* or upper edge; either is cut at the right or lower edge exactly when it
\* reaches more than expand + 200 pixels past the output frame there; and the
\* part of either that falls in the output frame is never cut.
C10_FrameContentNotClipped ==
    Layered =>
        LET frame == avatar.crop_box
            place(offset) == <<avatar.expand[1] + offset[1],
                               avatar.expand[2] + offset[2]>>
        IN  /\ avatar.expanded_size =
                   <<avatar.cfg.output_size[1] + 2 * avatar.expand[1] + 200,
                     avatar.cfg.output_size[2] + 2 * avatar.expand[2] + 200>>
            /\ avatar.mask_at = place(avatar.cfg.mask_offset)
            /\ avatar.char_at = place(avatar.cfg.character_offset)
            /\ \A r \in {MaskRect, CharacterRect} :
                  /\ r[1] >= 0 /\ r[2] >= 0
                  /\ Inside(r, ExpandedCanvas)
                        <=> /\ r[3] <= frame[3] + avatar.expand[1] + 200
                            /\ r[4] <= frame[4] + avatar.expand[2] + 200
                  /\ Intersect(Intersect(r, ExpandedCanvas), frame)
                        = Intersect(r, frame)

\* the default configuration, unrotated: the character, 1608 rows high at
\* internal scale 2, is cut by the lower edge of the 1160-row canvas
C10_DefaultCharacterCut ==
    /\ pc = "composite"
    /\ avatar.config.mask_offset = <<Lit(0, 1), Lit(-296, 10)>>
    /\ avatar.config.character_offset = <<Lit(-70, 1), Lit(-40, 1)>>
    /\ avatar.config.output_size = <<Lit(340, 1), Lit(400, 1)>>
    /\ avatar.config.output_scale = Lit(1, 1)
    /\ avatar.cfg.character_rotation = 0
    /\ avatar.expanded_size = <<1160, 1160>>
    /\ CharacterRect = <<0, 0, 898, 1608>>
    /\ ~Inside(CharacterRect, ExpandedCanvas)
    /\ Inside(MaskRect, ExpandedCanvas)
    /\ Intersect(CharacterRect, avatar.crop_box) = avatar.crop_box

---------------------------------------------------------------------------
(* Properties of hex_to_rgb.                                               *)

\* str with one leading '#', if it has one, removed
StripOneHash(str) == IF str # <<>> /\ str[1] = "#" THEN Tail(str) ELSE str

SixHexDigits(str) == Len(str) = 6 /\ \A i \in 1..6 : IsHexDigit(str[i])

\* C4 as the specification states it: hex_to_rgb fails for every string
\* that, with an optional leading '#' removed, is not exactly six
\* hexadecimal digits, and what it returns is three channels in 0..255.
C4_RejectsAllButSixHexDigits ==
    (hexFrame # Idle /\ pc = "returned") =>
        LET valid == SixHexDigits(StripOneHash(hexFrame.hex_color))
            r     == hexFrame.result
        IN  /\ ~valid => r.error # "none"
            /\ r.error = "none"
                 => valid /\ \A c \in 1..3 : r.rgb[c] \in 0..255

\* five digits are accepted, the last channel read from one digit
C4_FiveDigitsAccepted ==
    /\ pc = "returned"
    /\ hexFrame # Idle
    /\ hexFrame.hex_color = <<"1", "1", "1", "1", "1">>
    /\ hexFrame.result = [error |-> "none", rgb |-> <<17, 17, 1>>]

---------------------------------------------------------------------------
(* Properties of create_gradient_image.                                    *)

\* start * (1 - t) + end * t for t = ((W - x) + y) / (W + H), in exact
\* arithmetic, as a fraction over W + H
ExactChannelNum(width, height, start, end, x, y) ==
    start * ((width + height) - ((width - x) + y)) + end * ((width - x) + y)

ExactChannel(width, height, start, end, x, y) ==
    ExactChannelNum(width, height, start, end, x, y) \div (width + height)

GradientReturned == gradFrame # Idle /\ pc = "returned"

\* C6 as the specification states it: every channel of every pixel is
\* floor(start (1 - t) + end t), and the 10 x 10 gradient from #000000 to
\* #FFFFFF has 242 at pixel (9, 0) and 12 at pixel (0, 9).
C6_ChannelIsExactFloor ==
    GradientReturned =>
        LET width     == gradFrame.size[1]
            height    == gradFrame.size[2]
            start_rgb == hex_to_rgb(gradFrame.gradient.start_color).rgb
            end_rgb   == hex_to_rgb(gradFrame.gradient.end_color).rgb
        IN  /\ \A x \in 0..(width - 1) : \A y \in 0..(height - 1) : \A c \in 1..3 :
                  gradFrame.img[<<x, y>>][c] =
                      ExactChannel(width, height, start_rgb[c], end_rgb[c], x, y)
            /\ (gradFrame.size = <<10, 10>> /\ gradFrame.gradient = BlackToWhite)
                  => /\ gradFrame.img[<<9, 0>>][1] = 242
                     /\ gradFrame.img[<<0, 9>>][1] = 12

\* C6, amended: every channel of every pixel is floor(start (1 - t) + end t)
\* of the exact value, or one less than it where the exact value is a whole
\* number that the float arithmetic falls short of (as at pixel (0, 0) of
\* the 1 x 2 gradient from #010101 to #01a301, green 54 for the exact 55);
\* the 10 x 10 gradient from #000000 to #FFFFFF has 12 at pixel (9, 0),
\* where t = 0.05, and 242 at pixel (0, 9), where t = 0.95.
C6_ChannelIsFloatFloor ==
    GradientReturned =>
        LET width     == gradFrame.size[1]
            height    == gradFrame.size[2]
            start_rgb == hex_to_rgb(gradFrame.gradient.start_color).rgb
            end_rgb   == hex_to_rgb(gradFrame.gradient.end_color).rgb
        IN  /\ \A x \in 0..(width - 1) : \A y \in 0..(height - 1) : \A c \in 1..3 :
                  LET exact == ExactChannel(width, height, start_rgb[c], end_rgb[c], x, y)
                      whole == ExactChannelNum(width, height, start_rgb[c],
                                               end_rgb[c], x, y) % (width + height) = 0
                      got   == gradFrame.img[<<x, y>>][c]
                  IN  got = exact \/ (whole /\ got = exact - 1)
            /\ (gradFrame.size = <<1, 2>> /\ gradFrame.gradient = DarkToGreen)
                  => gradFrame.img[<<0, 0>>] = [c \in 1..3 |-> IF c = 2 THEN 54 ELSE 1]
            /\ (gradFrame.size = <<10, 10>> /\ gradFrame.gradient = BlackToWhite)
                  => /\ gradFrame.img[<<9, 0>>][1] = 12
                     /\ gradFrame.img[<<0, 9>>][1] = 242

\* the 10 x 10 gradient from black to white, returned
C6_TenByTenReturned ==
    /\ GradientReturned
    /\ gradFrame.size = <<10, 10>>
    /\ gradFrame.gradient = BlackToWhite
    /\ gradFrame.img[<<9, 0>>] = [c \in 1..3 |-> 12]
    /\ gradFrame.img[<<0, 9>>] = [c \in 1..3 |-> 242]
    /\ gradFrame.img[<<0, 0>>] = [c \in 1..3 |-> 127]

---------------------------------------------------------------------------
(* Properties of the alpha combination and of load_shape_mask.             *)

\* C8: for every pair of 8-bit alphas of the character and of the mask, the
\* combined alpha is character * mask / 255 (rounded down), is zero when
\* either is zero, is the same with the two exchanged, and exceeds neither.
C8_AlphaMultiply ==
    (alphaFrame # Idle /\ pc = "combined") =>
        LET a == alphaFrame.temp
            m == alphaFrame.full_mask
            final_alpha == alphaFrame.final_alpha
        IN  /\ final_alpha = (a * m) \div 255
            /\ (a = 0 \/ m = 0) => final_alpha = 0
            /\ final_alpha = ChopMultiply(m, a)
            /\ final_alpha <= a /\ final_alpha <= m
            /\ alphaFrame.char_expanded = final_alpha

\* 254 * 128 / 255 = 127.5, combined to 127
C8_NearOpaqueCombined ==
    /\ alphaFrame # Idle
    /\ pc = "combined"
    /\ alphaFrame.temp = 254
    /\ alphaFrame.full_mask = 128
    /\ alphaFrame.final_alpha = 127

\* C9 as the specification states it: for a raster shape, the mask is the
\* alpha channel of a source that has one (LA as well as RGBA), else the
\* source itself if it has a single channel, else its luminance; and the
\* mask returned has exactly the size asked for.
C9_AlphaChannelOfEveryMode ==
    (shapeFrame # Idle /\ pc = "returned" /\ shapeFrame.shape.kind = "png") =>
        LET img  == shapeFrame.shape.img
            mask == shapeFrame.result.mask
        IN  /\ mask.size = shapeFrame.size
            /\ mask.mode = "L"
            /\ mask.pixel["L"] =
                  IF "A" \in ModeBands(img.mode) THEN img.pixel["A"]
                  ELSE IF ModeBands(img.mode) = {"L"} THEN img.pixel["L"]
                  ELSE ConvertL(img).pixel["L"]

\* a transparent white LA image gives an opaque mask
C9_GreyAlphaIgnored ==
    /\ shapeFrame # Idle
    /\ pc = "returned"
    /\ shapeFrame.shape.kind = "png"
    /\ shapeFrame.shape.img.mode = "LA"
    /\ shapeFrame.shape.img.pixel["L"] = 255
    /\ shapeFrame.shape.img.pixel["A"] = 0
    /\ shapeFrame.result.mask.pixel["L"] = 255

---------------------------------------------------------------------------
(* composite_avatar on the alpha channels of its images, at internal scale *)
(* 1 (no fractional offset, so no resampling of the result), from the      *)
(* prepared character on.  An image is its size and the alpha (or the one  *)
(* band) of its pixels; a pixel that px does not hold is 0, as in an image *)
(* made by Image.new(mode, size, 0).                                       *)

Coords(size) == (0..(size[1] - 1)) \X (0..(size[2] - 1))

At(img, p) == IF p \in DOMAIN img.px THEN img.px[p] ELSE 0

\* Image.new("L", size, 0) and the alpha of Image.new("RGBA", size, (0, 0, 0, 0))
NewImage(size) == [size |-> size, px |-> [p \in {} |-> 0]]

Shift(p, by) == <<p[1] + by[1], p[2] + by[2]>>

Unshift(p, by) == <<p[1] - by[1], p[2] - by[2]>>

\* the pixels of dst that hold a value once src is pasted at position at
PastedDomain(dst, src, at) ==
    {p \in DOMAIN dst.px \cup {Shift(q, at) : q \in DOMAIN src.px} :
        p \in Coords(dst.size)}

\* dst.paste(src, at): the part of src that falls in dst replaces dst there
Paste(dst, src, at) ==
    [size |-> dst.size,
     px   |-> [p \in PastedDomain(dst, src, at) |->
                  IF Unshift(p, at) \in Coords(src.size)
                  THEN At(src, Unshift(p, at)) ELSE At(dst, p)]]

\* MULDIV255: a * b / 255, rounded
MulDiv255(a, b) ==
    LET tmp == a * b + 128
    IN  ((tmp \div 256) + tmp) \div 256

\* dst.paste(src, at, src) on the alpha band: src blended into dst by src's
\* own alpha
PasteMasked(dst, src, at) ==
    [size |-> dst.size,
     px   |-> [p \in PastedDomain(dst, src, at) |->
                  IF Unshift(p, at) \in Coords(src.size)
                  THEN LET m == At(src, Unshift(p, at))
                       IN  MulDiv255(m, m) + MulDiv255(At(dst, p), 255 - m)
                  ELSE At(dst, p)]]

\* ImageChops.multiply(a, b) of two images of one size
Multiply(a, b) ==
    [size |-> a.size,
     px   |-> [p \in DOMAIN a.px \cup DOMAIN b.px |->
                  ChopMultiply(At(a, p), At(b, p))]]

\* img.crop(box): what lies outside img is 0
Crop(img, box) ==
    [size |-> BoxSize(box),
     px   |-> [p \in Coords(BoxSize(box)) |->
                  LET q == Shift(p, <<box[1], box[2]>>)
                  IN  IF q \in Coords(img.size) THEN At(img, q) ELSE 0]]

\* the alpha of a source that replaces the destination
AlphaOverSource(da, sa) == sa

\* ImagingAlphaComposite on the alpha band: the destination's alpha where
\* the source is transparent, else (sa * 255 + da * (255 - sa)) / 255, rounded
AlphaOver(da, sa) ==
    IF sa = 0 THEN da
    ELSE LET outa255 == sa * 255 + da * (255 - sa) + 128
         IN  ((outa255 \div 256) + outa255) \div 256

\* Image.alpha_composite(dst, src), for images of one size
AlphaComposite(dst, src) ==
    [size |-> dst.size,
     px   |-> [p \in Coords(dst.size) |-> AlphaOver(At(dst, p), At(src, p))]]

\* the offsets of the mask and of the character reach MaxShift on both sides
MaxShift == 1

Shifts == (-MaxShift)..MaxShift

ImagesOf(size, values) == {[size |-> size, px |-> f] : f \in [Coords(size) -> values]}

\* configurations already scaled, with integer offsets, and small images:
\* a portal of one alpha throughout, a mask and a prepared character of two
\* pixels each
PixelConfigs ==
    {[output_size |-> <<2, 2>>, portal_offset |-> po, mask_offset |-> <<d, d>>,
      character_offset |-> co] :
        po \in {<<0, 0>>, <<0, 1>>}, d \in Shifts, co \in Shifts \X Shifts}

PortalImages ==
    {[size |-> <<2, 2>>, px |-> [p \in Coords(<<2, 2>>) |-> v]] : v \in {0, 254, 255}}

MaskImages == ImagesOf(<<1, 2>>, {0, 128, 255})

CharacterImages == ImagesOf(<<2, 1>>, {0, 254, 255})

PixelInit ==
    /\ pc = "px_portal"
    /\ pixels \in {[config |-> c, portal_img |-> portal, mask |-> mask,
                    character |-> character, canvas |-> Unbound,
                    full_mask |-> Unbound, temp |-> Unbound,
                    final_alpha |-> Unbound, char_expanded |-> Unbound,
                    char_layer |-> Unbound, result |-> Unbound] :
                      c \in PixelConfigs, portal \in PortalImages,
                      mask \in MaskImages, character \in CharacterImages}
    /\ hexFrame = Idle /\ gradFrame = Idle /\ shapeFrame = Idle
    /\ alphaFrame = Idle /\ avatar = Idle

PixelOthers == <<hexFrame, gradFrame, shapeFrame, alphaFrame, avatar>>

\* lines 258-264: the canvas, and the portal pasted onto it by its own alpha
PxPortal ==
    /\ pc = "px_portal"
    /\ pixels' = [pixels EXCEPT !.canvas =
                      PasteMasked(NewImage(pixels.config.output_size),
                                  pixels.portal_img, pixels.config.portal_offset)]
    /\ pc' = "px_place"
    /\ UNCHANGED PixelOthers

\* lines 297-318: mask and character pasted onto the expanded canvas
PxPlace ==
    /\ pc = "px_place"
    /\ LET cfg == pixels.config
           expand_left == ExpandBy(cfg.mask_offset[1], cfg.character_offset[1])
           expand_top  == ExpandBy(cfg.mask_offset[2], cfg.character_offset[2])
           expanded_size == ExpandedSize(cfg.output_size, expand_left, expand_top)
           char_at == <<expand_left + cfg.character_offset[1],
                        expand_top + cfg.character_offset[2]>>
           mask_at == <<expand_left + cfg.mask_offset[1],
                        expand_top + cfg.mask_offset[2]>>
       IN  pixels' = [pixels EXCEPT
               !.full_mask = Paste(NewImage(expanded_size), pixels.mask, mask_at),
               !.temp = Paste(NewImage(expanded_size), pixels.character, char_at)]
    /\ pc' = "px_combine"
    /\ UNCHANGED PixelOthers

\* lines 320-328
PxCombine ==
    /\ pc = "px_combine"
    /\ LET char_orig_alpha == pixels.temp
           final_alpha     == Multiply(char_orig_alpha, pixels.full_mask)
       IN  pixels' = [pixels EXCEPT !.final_alpha = final_alpha,
                                    !.char_expanded = final_alpha]
    /\ pc' = "px_crop"
    /\ UNCHANGED PixelOthers

\* lines 331-334
PxCrop ==
    /\ pc = "px_crop"
    /\ LET cfg == pixels.config
           expand_left == ExpandBy(cfg.mask_offset[1], cfg.character_offset[1])
           expand_top  == ExpandBy(cfg.mask_offset[2], cfg.character_offset[2])
           crop_box    == CropBox(cfg.output_size, expand_left, expand_top)
       IN  pixels' = [pixels EXCEPT !.char_layer = Crop(pixels.char_expanded, crop_box)]
    /\ pc' = "px_composite"
    /\ UNCHANGED PixelOthers

\* line 337: Image.alpha_composite raises ValueError unless the sizes match
PxComposite ==
    /\ pc = "px_composite"
    /\ IF pixels.canvas.size = pixels.char_layer.size
       THEN /\ pixels' = [pixels EXCEPT !.canvas =
                              AlphaComposite(pixels.canvas, pixels.char_layer)]
            /\ pc' = "px_return"
       ELSE /\ pixels' = pixels
            /\ pc' = "raised"
    /\ UNCHANGED PixelOthers

\* lines 340, 347: internal scale 1, the canvas is returned as it is
PxReturn ==
    /\ pc = "px_return"
    /\ pixels' = [pixels EXCEPT !.result = pixels.canvas]
    /\ pc' = "returned"
    /\ UNCHANGED PixelOthers

PixelNext == PxPortal \/ PxPlace \/ PxCombine \/ PxCrop \/ PxComposite \/ PxReturn

SpecPixels == PixelInit /\ [][PixelNext]_vars

---------------------------------------------------------------------------
(* Properties of the alpha of the image returned.                          *)

\* the alpha an image placed at an offset of the output frame has at the
\* frame's pixel p: 0 where the image does not reach
PlacedAt(img, offset, p) ==
    IF Unshift(p, offset) \in Coords(img.size) THEN At(img, Unshift(p, offset)) ELSE 0

MaskAlphaAt(p) == PlacedAt(pixels.mask, pixels.config.mask_offset, p)

SubjectAlphaAt(p) == PlacedAt(pixels.character, pixels.config.character_offset, p)

PortalAlphaAt(p) == PlacedAt(pixels.portal_img, pixels.config.portal_offset, p)

PixelsReturned == pixels # Idle /\ pc = "returned"

---------------------------------------------------------------------------
(* Properties of the placement on the expanded canvas.                     *)

\* C11: for the integer offsets of the mask and of the character that
\* scaled() leaves (any sign, integer or fractional in the caller's
\* configuration), with expandLeft = abs(min(0, maskOffsetX, subjectOffsetX))
\* and expandTop = abs(min(0, maskOffsetY, subjectOffsetY)), the placement
\* coordinates char_x, char_y, mask_x, mask_y are all >= 0, and the frame
\* cropped back, (expandLeft, expandTop, expandLeft + outputW, expandTop +
\* outputH), lies entirely inside the expanded canvas.
C11_PlacementNonNegativeFrameInside ==
    Layered =>
        LET cfg == avatar.cfg
            expandLeft == Abs(Min2(0, Min2(cfg.mask_offset[1], cfg.character_offset[1])))
            expandTop  == Abs(Min2(0, Min2(cfg.mask_offset[2], cfg.character_offset[2])))
        IN  /\ avatar.expand = <<expandLeft, expandTop>>
            /\ avatar.char_at[1] >= 0 /\ avatar.char_at[2] >= 0
            /\ avatar.mask_at[1] >= 0 /\ avatar.mask_at[2] >= 0
            /\ avatar.crop_box = <<expandLeft, expandTop,
                                   expandLeft + cfg.output_size[1],
                                   expandTop + cfg.output_size[2]>>
            /\ Inside(avatar.crop_box, ExpandedCanvas)

\* mask at (-FarOffset, -FarOffset) and character at (-FarOffset, FarOffset):
\* the mask lands on the canvas's corner and the frame FarOffset inside it
C11_FarNegativeOffsetsPlaced ==
    /\ pc = "composite"
    /\ IntegerOffsets(avatar.config)
    /\ avatar.config.output_scale = Lit(1, 1)
    /\ avatar.config.output_size = <<Lit(340, 1), Lit(400, 1)>>
    /\ avatar.config.mask_offset = <<Lit(-FarOffset, 1), Lit(-FarOffset, 1)>>
    /\ avatar.config.character_offset = <<Lit(-FarOffset, 1), Lit(FarOffset, 1)>>
    /\ avatar.expand = <<FarOffset, FarOffset>>
    /\ avatar.mask_at = <<0, 0>>
    /\ avatar.char_at = <<0, 2 * FarOffset>>
    /\ avatar.crop_box = <<FarOffset, FarOffset, FarOffset + 340, FarOffset + 400>>
    /\ Inside(avatar.crop_box, ExpandedCanvas)

====
